---- MODULE Spec2Model ----
(***************************************************************************)
(* Model of the LinearCPP matrix library (MatrixLibrary/include):          *)
(*   Matrix.hpp        dense row-major container, padding, operator*       *)
(*   Product.hpp       matrixMultiply (classical) and strassenMultiply     *)
(*   Helper.hpp        nextPowerOfTwo                                      *)
(*   LinearSolver.hpp  decomposeLU (partial pivoting) and solve            *)
(*                                                                         *)
(* A Matrix<T> is the record [m_rows, m_cols, m_data] with m_data the      *)
(* row-major vector, indexed from 0 exactly as operator()(row, col) does.  *)
(* decomposeLU/solve are instantiated over exact rationals (pairs          *)
(* <<numerator, denominator>> in lowest terms), the multiplication engine  *)
(* over the integers.                                                      *)
(***************************************************************************)
EXTENDS Integers, Sequences, FiniteSets, TLC

(***************************************************************************)
(* Bounds of the model.                                                    *)
(***************************************************************************)
\* largest dimension of a matrix handed to decomposeLU
MaxDim == 3
\* largest number of cells (rows * cols) of an operand of operator* and of
\* matrixPadding
MaxCells == 4
\* matrixPadding is asked for newSize up to max(rows, cols) + MaxExtra
MaxExtra == 2
\* width of size_t in bits, scaled down from 64
SizeBits == 5

\* int treshold = 64 (Matrix.hpp:117 and Product.hpp:57)
Treshold64 == 64
\* the values the threshold takes in the model: operands with 64 cells and
\* recursion on 128 x 128 blocks are out of reach of exhaustive search, so
\* the threshold is scaled down next to its real value
Thresholds == {1, 2, Treshold64}

VARIABLES
    \* ---- decomposeLU / solve (LinearSolver.hpp) ----
    A,           \* the caller's matrix (never written)
    LU,          \* result.LU, the working copy
    P,           \* result.P
    toggleSign,  \* result.toggleSign
    i,           \* the pivot index of the outer loop
    maxIndex,    \* the row selected at the current pivot step
    swaps,       \* number of times the swap branch (lines 60-71) was taken
    errIndex,    \* pivot index carried by the singular-matrix error, -1 if none
    b,           \* right-hand side handed to solve
    x,           \* vector returned by solve
    pc,          \* position inside decomposeLU / solve
    \* ---- Matrix::operator* (Matrix.hpp:113-131) ----
    lhs,         \* *this
    other,       \* the right-hand operand
    treshold,    \* the threshold of operator* and strassenMultiply
    paddedSize,  \* nextPowerOfTwo(maxDim)
    APadded,
    BPadded,
    CPadded,
    product,     \* the matrix operator* returns
    mpc,         \* position inside operator*
    \* ---- matrixPadding / matrixUnpadding (Matrix.hpp:163-193) ----
    src,         \* the matrix handed to matrixPadding
    newSize,
    padded,      \* result of matrixPadding(src, newSize)
    unpadded,    \* result of padded.matrixUnpadding(src.rows, src.cols)
    ppc,
    \* ---- nextPowerOfTwo (Helper.hpp:20-31) ----
    n,
    power,
    ret,         \* the value returned
    npc

luVars == <<A, LU, P, toggleSign, i, maxIndex, swaps, errIndex, b, x, pc>>
mulVars == <<lhs, other, treshold, paddedSize, APadded, BPadded, CPadded, product, mpc>>
padVars == <<src, newSize, padded, unpadded, ppc>>
npVars == <<n, power, ret, npc>>

vars == <<luVars, mulVars, padVars, npVars>>

(***************************************************************************)
(* Exact rational arithmetic: the element type of decomposeLU and solve.   *)
(***************************************************************************)
Abs(v) == IF v < 0 THEN -v ELSE v

RECURSIVE GCD(_, _)
GCD(p, q) == IF q = 0 THEN p ELSE GCD(q, p % q)

\* the rational num/den (den # 0) in lowest terms with a positive denominator
Rat(num, den) ==
    LET g == GCD(Abs(num), Abs(den))
        s == IF den < 0 THEN -1 ELSE 1
    IN  <<(s * num) \div g, (s * den) \div g>>

Zero == <<0, 1>>
ToRat(v) == <<v, 1>>
RAdd(p, q) == Rat(p[1] * q[2] + q[1] * p[2], p[2] * q[2])
RSub(p, q) == Rat(p[1] * q[2] - q[1] * p[2], p[2] * q[2])
RMul(p, q) == Rat(p[1] * q[1], p[2] * q[2])
RDiv(p, q) == Rat(p[1] * q[2], p[2] * q[1])
RAbs(p) == <<Abs(p[1]), p[2]>>
RGreater(p, q) == p[1] * q[2] > q[1] * p[2]

(***************************************************************************)
(* Matrix container (Matrix.hpp).                                          *)
(***************************************************************************)
\* Matrix(rows, cols): m_data(rows * cols, 0)
Matrix(rows, cols, zero) ==
    [m_rows |-> rows, m_cols |-> cols,
     m_data |-> [k \in 0..(rows * cols - 1) |-> zero]]

\* Matrix(): the empty matrix
EmptyMatrix == [m_rows |-> 0, m_cols |-> 0, m_data |-> [k \in {} |-> 0]]

\* operator()(row, col): m_data[row * m_cols + col]
At(M, row, col) == M.m_data[row * M.m_cols + col]

\* row and column of the k-th cell of the row-major vector
RowOf(M, k) == k \div M.m_cols
ColOf(M, k) == k % M.m_cols

(***************************************************************************)
(* decomposeLU (LinearSolver.hpp:35-92), one action per block of the body. *)
(***************************************************************************)
dim == A.m_rows

\* the scan of lines 54-59 with < in place of >
RECURSIVE ScanMin(_, _, _, _, _)
ScanMin(Q, col, j, mIdx, mVal) ==
    IF j >= Q.m_rows THEN mIdx
    ELSE IF RGreater(mVal, RAbs(At(Q, j, col)))
         THEN ScanMin(Q, col, j + 1, j, RAbs(At(Q, j, col)))
         ELSE ScanMin(Q, col, j + 1, mIdx, mVal)

SelectMinIndex(Q, col) == ScanMin(Q, col, col + 1, col, RAbs(At(Q, col, col)))

\* the scan of lines 54-59 with >= in place of >
RECURSIVE ScanMaxLast(_, _, _, _, _)
ScanMaxLast(Q, col, j, mIdx, mVal) ==
    IF j >= Q.m_rows THEN mIdx
    ELSE IF ~RGreater(mVal, RAbs(At(Q, j, col)))
         THEN ScanMaxLast(Q, col, j + 1, j, RAbs(At(Q, j, col)))
         ELSE ScanMaxLast(Q, col, j + 1, mIdx, mVal)

\* lines 52-59: the scan for the pivot row, strict > keeps the first maximum
RECURSIVE ScanMax(_, _, _, _, _)
ScanMax(M, col, j, mIdx, mVal) ==
    IF j >= M.m_rows THEN mIdx
    ELSE IF RGreater(RAbs(At(M, j, col)), mVal)
         THEN ScanMax(M, col, j + 1, j, RAbs(At(M, j, col)))
         ELSE ScanMax(M, col, j + 1, mIdx, mVal)

SelectMaxIndex(M, col) == ScanMax(M, col, col + 1, col, RAbs(At(M, col, col)))

\* what lines 61-65 would do with the loop started at column 0
swapRowsWhole(M, r1, r2, from) ==
    [M EXCEPT !.m_data =
        [k \in DOMAIN M.m_data |->
            IF RowOf(M, k) = r1 THEN At(M, r2, ColOf(M, k))
            ELSE IF RowOf(M, k) = r2 THEN At(M, r1, ColOf(M, k))
            ELSE M.m_data[k]]]

\* lines 61-65: exchange rows r1 and r2 in the columns j = from .. dim-1
swapRows(M, r1, r2, from) ==
    [M EXCEPT !.m_data =
        [k \in DOMAIN M.m_data |->
            IF RowOf(M, k) = r1 /\ ColOf(M, k) >= from THEN At(M, r2, ColOf(M, k))
            ELSE IF RowOf(M, k) = r2 /\ ColOf(M, k) >= from THEN At(M, r1, ColOf(M, k))
            ELSE M.m_data[k]]]

\* lines 67-69 without the temporary: P[r1] = P[r2]; P[r2] = P[r1]
swapEntriesNoTmp(perm, r1, r2) ==
    [k \in DOMAIN perm |-> IF k = r1 THEN perm[r2] ELSE perm[k]]

\* lines 67-69: exchange two entries of the permutation vector
swapEntries(perm, r1, r2) ==
    [k \in DOMAIN perm |->
        IF k = r1 THEN perm[r2] ELSE IF k = r2 THEN perm[r1] ELSE perm[k]]

\* line 70 as an assignment of -1
flipToMinus(sign) == -1

\* line 70: toggleSign *= -1
flip(sign) == sign * (-1)

\* line 72: std::abs(v) < 1e-15.  Every rational of the model has a
\* denominator below 2^31 < 10^15, so a non-zero value has magnitude
\* above 1e-15 and the comparison is true exactly for 0.
belowTolerance(v) == RAbs(v)[1] = 0

\* lines 76-84 with the row loop starting at the pivot row (j = i)
eliminateFromPivot(M, piv) ==
    [M EXCEPT !.m_data =
        [k \in DOMAIN M.m_data |->
            LET j == RowOf(M, k)
                c == ColOf(M, k)
                mult == RDiv(At(M, j, piv), At(M, piv, piv))
            IN  IF j >= piv /\ c = piv THEN mult
                ELSE IF j >= piv /\ c > piv
                     THEN RSub(M.m_data[k], RMul(mult, At(M, piv, c)))
                     ELSE M.m_data[k]]]

\* lines 76-84: rows below the pivot row get their multiplier stored in
\* column piv and lose mult * (pivot row) in the columns right of it; the
\* pivot row itself is only read, so the rows are independent of each other
eliminate(M, piv) ==
    [M EXCEPT !.m_data =
        [k \in DOMAIN M.m_data |->
            LET j == RowOf(M, k)
                c == ColOf(M, k)
                mult == RDiv(At(M, j, piv), At(M, piv, piv))
            IN  IF j > piv /\ c = piv THEN mult
                ELSE IF j > piv /\ c > piv
                     THEN RSub(M.m_data[k], RMul(mult, At(M, piv, c)))
                     ELSE M.m_data[k]]]

\* the for-loop head of line 51
loopHead(idx) == IF idx < dim THEN "select" ELSE "returned"

\* lines 42-49: copy A, P := identity, toggleSign := 1
Initialise ==
    /\ pc = "call"
    /\ LU' = A
    /\ P' = [k \in 0..(dim - 1) |-> k]
    /\ toggleSign' = 1
    /\ i' = 0
    /\ pc' = loopHead(0)
    /\ UNCHANGED <<A, maxIndex, swaps, errIndex, b, x>>
    /\ UNCHANGED <<mulVars, padVars, npVars>>

\* lines 52-59
SelectPivot ==
    /\ pc = "select"
    /\ maxIndex' = SelectMaxIndex(LU, i)
    /\ pc' = "swap"
    /\ UNCHANGED <<A, LU, P, toggleSign, i, swaps, errIndex, b, x>>
    /\ UNCHANGED <<mulVars, padVars, npVars>>

\* lines 60-71
SwapStep ==
    /\ pc = "swap"
    /\ IF maxIndex # i
       THEN /\ LU' = swapRows(LU, i, maxIndex, i)
            /\ P' = swapEntries(P, i, maxIndex)
            /\ toggleSign' = flip(toggleSign)
            /\ swaps' = swaps + 1
       ELSE UNCHANGED <<LU, P, toggleSign, swaps>>
    /\ pc' = "check"
    /\ UNCHANGED <<A, i, maxIndex, errIndex, b, x>>
    /\ UNCHANGED <<mulVars, padVars, npVars>>

\* lines 72-75
CheckPivot ==
    /\ pc = "check"
    /\ IF belowTolerance(At(LU, i, i))
       THEN pc' = "thrown" /\ errIndex' = i
       ELSE pc' = "eliminate" /\ UNCHANGED errIndex
    /\ UNCHANGED <<A, LU, P, toggleSign, i, maxIndex, swaps, b, x>>
    /\ UNCHANGED <<mulVars, padVars, npVars>>

\* lines 76-85 and the ++i of line 51
Eliminate ==
    /\ pc = "eliminate"
    /\ LU' = eliminate(LU, i)
    /\ i' = i + 1
    /\ pc' = loopHead(i + 1)
    /\ UNCHANGED <<A, P, toggleSign, maxIndex, swaps, errIndex, b, x>>
    /\ UNCHANGED <<mulVars, padVars, npVars>>

(***************************************************************************)
(* solve (LinearSolver.hpp:106-142).                                       *)
(***************************************************************************)
\* sum of M(row, j) * v[j] for j = lo .. hi-1, accumulated as lines 121-125
\* and 134-138 do
RECURSIVE rowSum(_, _, _, _, _)
rowSum(M, row, v, lo, hi) ==
    IF lo >= hi THEN Zero
    ELSE RAdd(rowSum(M, row, v, lo, hi - 1), RMul(At(M, row, hi - 1), v[hi - 1]))

\* lines 110-114: pb[i] = b[P[i]]
permute(perm, rhs) == [k \in DOMAIN perm |-> rhs[perm[k]]]

\* v extended (or overwritten) at index k with val
withEntry(v, k, val) ==
    [j \in DOMAIN v \cup {k} |-> IF j = k THEN val ELSE v[j]]

\* lines 118-127: the forward substitution L y = pb, y[k] computed for
\* k = from .. dim-1 from the entries computed before it
RECURSIVE forward(_, _, _, _)
forward(M, pb, y, from) ==
    IF from >= M.m_rows THEN y
    ELSE forward(M, pb,
                 withEntry(y, from, RSub(pb[from], rowSum(M, from, y, 0, from))),
                 from + 1)

\* lines 131-140: the backward substitution U x = y, x[k] computed for
\* k = from down to 0 from the entries computed before it
RECURSIVE backward(_, _, _, _)
backward(M, y, xs, from) ==
    IF from < 0 THEN xs
    ELSE backward(M, y,
                  withEntry(xs, from,
                            RDiv(RSub(y[from], rowSum(M, from, xs, from + 1, M.m_rows)),
                                 At(M, from, from))),
                  from - 1)

\* std::vector<T> v(dim) before any entry is assigned
NoEntries == [k \in {} |-> Zero]

solve(m_LU, perm, rhs) ==
    backward(m_LU, forward(m_LU, permute(perm, rhs), NoEntries, 0),
             NoEntries, m_LU.m_rows - 1)

(***************************************************************************)
(* Inputs of decomposeLU: every square matrix of dimension 1..MaxDim over  *)
(* Entries and every matrix of dimension 1 or 2 over WideEntries (among    *)
(* them the worked examples [[2,1],[1,3]] and [[1,2],[0,0]]).  Right-hand  *)
(* sides: every vector over Entries, and the worked example [3,5].         *)
(***************************************************************************)
Entries == {0, 1}
WideEntries == -1..3

\* the matrix whose rows are the given tuples of integers
FromRows(rows) ==
    LET r == Len(rows)
        c == IF r = 0 THEN 0 ELSE Len(rows[1])
    IN  [m_rows |-> r, m_cols |-> c,
         m_data |-> [k \in 0..(r * c - 1) |->
                        ToRat(rows[(k \div c) + 1][(k % c) + 1])]]

ExampleA == FromRows(<< <<2, 1>>, <<1, 3>> >>)
ExampleB == [k \in 0..1 |-> IF k = 0 THEN ToRat(3) ELSE ToRat(5)]
ExampleSingular == FromRows(<< <<1, 2>>, <<0, 0>> >>)

\* the d x d matrix whose row-major cells are the integers f[0], f[1], ...
SquareOf(d, f) ==
    [m_rows |-> d, m_cols |-> d,
     m_data |-> [k \in 0..(d * d - 1) |-> ToRat(f[k])]]

IsSquareInput(Q) ==
    \/ \E d \in 1..MaxDim : \E f \in [0..(d * d - 1) -> Entries] : Q = SquareOf(d, f)
    \/ \E d \in 1..2 : \E f \in [0..(d * d - 1) -> WideEntries] : Q = SquareOf(d, f)

RightHandSides(d) ==
    { [k \in 0..(d - 1) |-> ToRat(f[k])] : f \in [0..(d - 1) -> Entries] }
    \cup (IF d = 2 THEN {ExampleB} ELSE {})

\* solve(luRes, b) on the result decomposeLU returned (Main.cpp:58-64)
Solve ==
    /\ pc = "returned"
    /\ \E rhs \in RightHandSides(dim) :
          /\ b' = rhs
          /\ x' = solve(LU, P, rhs)
    /\ pc' = "solved"
    /\ UNCHANGED <<A, LU, P, toggleSign, i, maxIndex, swaps, errIndex>>
    /\ UNCHANGED <<mulVars, padVars, npVars>>

IdleLU ==
    /\ A = EmptyMatrix /\ LU = EmptyMatrix /\ P = <<>> /\ toggleSign = 0
    /\ i = 0 /\ maxIndex = 0 /\ swaps = 0 /\ errIndex = -1
    /\ b = <<>> /\ x = <<>> /\ pc = "idle"
IdleMul ==
    /\ lhs = EmptyMatrix /\ other = EmptyMatrix /\ treshold = 0 /\ paddedSize = 0
    /\ APadded = EmptyMatrix /\ BPadded = EmptyMatrix /\ CPadded = EmptyMatrix
    /\ product = EmptyMatrix /\ mpc = "idle"
IdlePad ==
    /\ src = EmptyMatrix /\ newSize = 0 /\ padded = EmptyMatrix
    /\ unpadded = EmptyMatrix /\ ppc = "idle"
IdleNP ==
    /\ n = 0 /\ power = 0 /\ ret = 0 /\ npc = "idle"

InitLU ==
    /\ IsSquareInput(A)
    /\ LU = EmptyMatrix
    /\ P = <<>>
    /\ toggleSign = 0
    /\ i = 0
    /\ maxIndex = 0
    /\ swaps = 0
    /\ errIndex = -1
    /\ b = <<>>
    /\ x = <<>>
    /\ pc = "call"
    /\ IdleMul /\ IdlePad /\ IdleNP

NextLU ==
    \/ Initialise
    \/ SelectPivot
    \/ SwapStep
    \/ CheckPivot
    \/ Eliminate
    \/ Solve

SpecLU == InitLU /\ [][NextLU]_vars

(***************************************************************************)
(* nextPowerOfTwo (Helper.hpp:20-31) over a size_t of SizeBits bits.       *)
(***************************************************************************)
RECURSIVE Pow2(_)
Pow2(e) == IF e = 0 THEN 1 ELSE 2 * Pow2(e - 1)

\* number of values of size_t
SizeRange == Pow2(SizeBits)

\* p & q on unsigned values
RECURSIVE BitAnd(_, _)
BitAnd(p, q) ==
    IF p = 0 \/ q = 0 THEN 0
    ELSE (p % 2) * (q % 2) + 2 * BitAnd(p \div 2, q \div 2)

\* line 25 read as a test of evenness only (n & 1)
lowBitClear(v) == BitAnd(v, 1) = 0

\* line 25: (n & (n - 1)) == 0, evaluated for n > 0
isPowerOfTwo(v) == BitAnd(v, v - 1) = 0

\* line 28: power <<= 1 in size_t
shiftLeft(v) == (2 * v) % SizeRange

\* lines 22-25: the two early returns
NPEntry ==
    /\ npc = "call"
    /\ IF n = 0 THEN ret' = 1 /\ npc' = "returned" /\ UNCHANGED power
       ELSE IF isPowerOfTwo(n) THEN ret' = n /\ npc' = "returned" /\ UNCHANGED power
       ELSE power' = 1 /\ npc' = "loop" /\ UNCHANGED ret
    /\ UNCHANGED n
    /\ UNCHANGED <<luVars, mulVars, padVars>>

\* lines 27-29: one iteration of while (power < n)
NPLoop ==
    /\ npc = "loop"
    /\ power < n
    /\ power' = shiftLeft(power)
    /\ UNCHANGED <<n, ret, npc>>
    /\ UNCHANGED <<luVars, mulVars, padVars>>

\* line 30: the loop is left and power returned
NPReturn ==
    /\ npc = "loop"
    /\ ~(power < n)
    /\ ret' = power
    /\ npc' = "returned"
    /\ UNCHANGED <<n, power>>
    /\ UNCHANGED <<luVars, mulVars, padVars>>

\* the value a call returns, for arguments on which the loop ends
RECURSIVE npLoop(_, _)
npLoop(pw, v) == IF pw < v THEN npLoop(shiftLeft(pw), v) ELSE pw

nextPowerOfTwo(v) ==
    IF v = 0 THEN 1 ELSE IF isPowerOfTwo(v) THEN v ELSE npLoop(1, v)

InitNP ==
    /\ n \in 0..(SizeRange - 1)
    /\ power = 0
    /\ ret = 0
    /\ npc = "call"
    /\ IdleLU /\ IdleMul /\ IdlePad

NextNP ==
    \/ NPEntry
    \/ NPLoop
    \/ NPReturn

SpecNP == InitNP /\ [][NextNP]_vars

(***************************************************************************)
(* Matrix container over the integers (Matrix.hpp).                        *)
(***************************************************************************)
\* operator+ / operator- (lines 75-103)
plus(X, Y) ==
    IF X.m_rows # Y.m_rows \/ X.m_cols # Y.m_cols THEN "invalid_argument"
    ELSE [X EXCEPT !.m_data = [k \in DOMAIN X.m_data |-> X.m_data[k] + Y.m_data[k]]]

minus(X, Y) ==
    IF X.m_rows # Y.m_rows \/ X.m_cols # Y.m_cols THEN "invalid_argument"
    ELSE [X EXCEPT !.m_data = [k \in DOMAIN X.m_data |-> X.m_data[k] - Y.m_data[k]]]

\* getSubMatrix (lines 133-144)
getSubMatrix(X, startRow, startCol, size) ==
    [m_rows |-> size, m_cols |-> size,
     m_data |-> [k \in 0..(size * size - 1) |->
                    At(X, startRow + (k \div size), startCol + (k % size))]]

\* setSubMatrix (lines 147-156)
setSubMatrix(X, startRow, startCol, sub) ==
    [X EXCEPT !.m_data =
        [k \in DOMAIN X.m_data |->
            LET r == RowOf(X, k) - startRow
                c == ColOf(X, k) - startCol
            IN  IF r >= 0 /\ r < sub.m_rows /\ c >= 0 /\ c < sub.m_cols
                THEN At(sub, r, c)
                ELSE X.m_data[k]]]

\* matrixPadding (lines 163-182)
matrixPadding(X, size) ==
    IF size = X.m_rows /\ size = X.m_cols THEN X
    ELSE [m_rows |-> size, m_cols |-> size,
          m_data |-> [k \in 0..(size * size - 1) |->
                         IF (k \div size) < X.m_rows /\ (k % size) < X.m_cols
                         THEN At(X, k \div size, k % size)
                         ELSE 0]]

\* matrixUnpadding copying the first rows * cols cells of the row-major vector
matrixUnpaddingFlat(X, rows, cols) ==
    [m_rows |-> rows, m_cols |-> cols,
     m_data |-> [k \in 0..(rows * cols - 1) |-> X.m_data[k]]]

\* matrixUnpadding with rows and cols exchanged in the constructor call
matrixUnpaddingTransposed(X, rows, cols) ==
    [m_rows |-> cols, m_cols |-> rows,
     m_data |-> [k \in 0..(rows * cols - 1) |-> At(X, k \div rows, k % rows)]]

\* matrixUnpadding (lines 184-193)
matrixUnpadding(X, rows, cols) ==
    [m_rows |-> rows, m_cols |-> cols,
     m_data |-> [k \in 0..(rows * cols - 1) |-> At(X, k \div cols, k % cols)]]

(***************************************************************************)
(* Multiplication engine (Product.hpp).                                    *)
(***************************************************************************)
\* Product.hpp:27-34: result(row, col) after the iterations k = 0 .. upto-1
\* of the middle loop
RECURSIVE accumulate(_, _, _, _, _)
accumulate(X, Y, row, col, upto) ==
    IF upto = 0 THEN 0
    ELSE accumulate(X, Y, row, col, upto - 1) + At(X, row, upto - 1) * At(Y, upto - 1, col)

\* matrixMultiply (Product.hpp:23-36)
matrixMultiply(X, Y) ==
    [m_rows |-> X.m_rows, m_cols |-> Y.m_cols,
     m_data |-> [k \in 0..(X.m_rows * Y.m_cols - 1) |->
                    accumulate(X, Y, k \div Y.m_cols, k % Y.m_cols, X.m_cols)]]

\* line 81 with M5 added instead of subtracted
combineC11Plus(M1, M4, M5, M7) == plus(plus(plus(M1, M4), M5), M7)

\* Product.hpp:81-84: the four quadrants of the result
combineC11(M1, M4, M5, M7) == plus(minus(plus(M1, M4), M5), M7)
combineC12(M3, M5) == plus(M3, M5)
combineC21(M2, M4) == plus(M2, M4)
combineC22(M1, M2, M3, M6) == plus(plus(minus(M1, M2), M3), M6)

\* line 59 with < in place of <=
baseCaseStrict(size, t) == size < t

\* Product.hpp:59: the base-case test on the dimension n = A.getRows()
baseCase(size, t) == size <= t

\* Product.hpp:63-79: the operand pairs of the seven recursive calls M1..M7
strassenOperands(X, Y) ==
    LET half == X.m_rows \div 2
        A11 == getSubMatrix(X, 0, 0, half)
        A12 == getSubMatrix(X, 0, half, half)
        A21 == getSubMatrix(X, half, 0, half)
        A22 == getSubMatrix(X, half, half, half)
        B11 == getSubMatrix(Y, 0, 0, half)
        B12 == getSubMatrix(Y, 0, half, half)
        B21 == getSubMatrix(Y, half, 0, half)
        B22 == getSubMatrix(Y, half, half, half)
    IN  << <<plus(A11, A22), plus(B11, B22)>>,
           <<plus(A21, A22), B11>>,
           <<A11, minus(B12, B22)>>,
           <<A22, minus(B21, B11)>>,
           <<plus(A11, A12), B22>>,
           <<minus(A21, A11), plus(B11, B12)>>,
           <<minus(A12, A22), plus(B21, B22)>> >>

\* strassenMultiply (Product.hpp:53-94) with threshold t
RECURSIVE strassenMultiply(_, _, _)
strassenMultiply(X, Y, t) ==
    LET size == X.m_rows
        half == size \div 2
    IN  IF baseCase(size, t) THEN matrixMultiply(X, Y)
        ELSE LET ops == strassenOperands(X, Y)
                 M1 == strassenMultiply(ops[1][1], ops[1][2], t)
                 M2 == strassenMultiply(ops[2][1], ops[2][2], t)
                 M3 == strassenMultiply(ops[3][1], ops[3][2], t)
                 M4 == strassenMultiply(ops[4][1], ops[4][2], t)
                 M5 == strassenMultiply(ops[5][1], ops[5][2], t)
                 M6 == strassenMultiply(ops[6][1], ops[6][2], t)
                 M7 == strassenMultiply(ops[7][1], ops[7][2], t)
                 C11 == combineC11(M1, M4, M5, M7)
                 C12 == combineC12(M3, M5)
                 C21 == combineC21(M2, M4)
                 C22 == combineC22(M1, M2, M3, M6)
             IN  setSubMatrix(
                     setSubMatrix(
                         setSubMatrix(
                             setSubMatrix(Matrix(size, size, 0), 0, 0, C11),
                             0, half, C12),
                         half, 0, C21),
                     half, half, C22)

(***************************************************************************)
(* Matrix::operator* (Matrix.hpp:113-131), one action per outcome of the   *)
(* two tests and per statement of the padded path.                         *)
(***************************************************************************)
Max2(p, q) == IF p >= q THEN p ELSE q

\* line 122
maxDimOf(X, Y) == Max2(Max2(X.m_rows, X.m_cols), Max2(Y.m_rows, Y.m_cols))

\* line 118 with && in place of ||
belowTresholdBoth(X, Y, t) == X.m_cols * X.m_rows < t /\ Y.m_cols * Y.m_rows < t

\* line 118
belowTreshold(X, Y, t) == X.m_cols * X.m_rows < t \/ Y.m_cols * Y.m_rows < t

\* lines 114-116
MulThrow ==
    /\ mpc = "call"
    /\ lhs.m_cols # other.m_rows
    /\ mpc' = "invalid_argument"
    /\ UNCHANGED <<lhs, other, treshold, paddedSize, APadded, BPadded, CPadded, product>>
    /\ UNCHANGED <<luVars, padVars, npVars>>

\* lines 117-121
MulClassical ==
    /\ mpc = "call"
    /\ lhs.m_cols = other.m_rows
    /\ belowTreshold(lhs, other, treshold)
    /\ product' = matrixMultiply(lhs, other)
    /\ mpc' = "returned_classical"
    /\ UNCHANGED <<lhs, other, treshold, paddedSize, APadded, BPadded, CPadded>>
    /\ UNCHANGED <<luVars, padVars, npVars>>

\* lines 122-126
MulPad ==
    /\ mpc = "call"
    /\ lhs.m_cols = other.m_rows
    /\ ~belowTreshold(lhs, other, treshold)
    /\ paddedSize' = nextPowerOfTwo(maxDimOf(lhs, other))
    /\ APadded' = matrixPadding(lhs, paddedSize')
    /\ BPadded' = matrixPadding(other, paddedSize')
    /\ mpc' = "padded"
    /\ UNCHANGED <<lhs, other, treshold, CPadded, product>>
    /\ UNCHANGED <<luVars, padVars, npVars>>

\* line 128
MulStrassen ==
    /\ mpc = "padded"
    /\ CPadded' = strassenMultiply(APadded, BPadded, treshold)
    /\ mpc' = "multiplied"
    /\ UNCHANGED <<lhs, other, treshold, paddedSize, APadded, BPadded, product>>
    /\ UNCHANGED <<luVars, padVars, npVars>>

\* line 130
MulUnpad ==
    /\ mpc = "multiplied"
    /\ product' = matrixUnpadding(CPadded, lhs.m_rows, other.m_cols)
    /\ mpc' = "returned_padded"
    /\ UNCHANGED <<lhs, other, treshold, paddedSize, APadded, BPadded, CPadded>>
    /\ UNCHANGED <<luVars, padVars, npVars>>

\* operands: every shape (zero dimensions included) of at most MaxCells
\* cells, every filling with IntEntries
IntEntries == {0, 1}

Shapes == { s \in (0..MaxCells) \X (0..MaxCells) : s[1] * s[2] <= MaxCells }

IntMatrix(s, f) == [m_rows |-> s[1], m_cols |-> s[2], m_data |-> f]

IsIntMatrix(Q) ==
    \E s \in Shapes : \E f \in [0..(s[1] * s[2] - 1) -> IntEntries] : Q = IntMatrix(s, f)

InitMul ==
    /\ IsIntMatrix(lhs)
    /\ IsIntMatrix(other)
    /\ treshold \in Thresholds
    /\ paddedSize = 0
    /\ APadded = EmptyMatrix
    /\ BPadded = EmptyMatrix
    /\ CPadded = EmptyMatrix
    /\ product = EmptyMatrix
    /\ mpc = "call"
    /\ IdleLU /\ IdlePad /\ IdleNP

NextMul ==
    \/ MulThrow
    \/ MulClassical
    \/ MulPad
    \/ MulStrassen
    \/ MulUnpad

SpecMul == InitMul /\ [][NextMul]_vars

(***************************************************************************)
(* The call tree of strassenMultiply as entered from operator*.            *)
(***************************************************************************)
\* the calls of strassenMultiply(X, Y) at nesting depth `depth` and below:
\* per call its depth, the dimension n of its caller, the shapes of its two
\* operands and the number of recursive calls it makes (Product.hpp:59-79)
RECURSIVE strassenCalls(_, _, _, _, _)
strassenCalls(X, Y, t, depth, callerSize) ==
    LET ops == strassenOperands(X, Y)
        made == IF baseCase(X.m_rows, t) THEN {} ELSE 1..7
    IN  {[depth |-> depth, caller |-> callerSize,
          a |-> <<X.m_rows, X.m_cols>>, b |-> <<Y.m_rows, Y.m_cols>>,
          calls |-> Cardinality(made)]}
        \cup UNION { strassenCalls(ops[k][1], ops[k][2], t, depth + 1, X.m_rows) :
                       k \in made }

\* the threshold 64 and its scaled-down stand-ins, powers of two like it
RecThresholds == {1, 2, 4, Treshold64}

\* an 8 x 8 operand: 64 cells, not below the threshold of Matrix.hpp:118
ExampleSquare == Matrix(8, 8, 1)

\* operands of every shape of at most MaxCells cells with one value in
\* every cell, and the 8 x 8 example
IsRecOperand(Q) ==
    \/ \E s \in Shapes : \E v \in IntEntries : Q = Matrix(s[1], s[2], v)
    \/ Q = ExampleSquare

InitRec ==
    /\ IsRecOperand(lhs)
    /\ IsRecOperand(other)
    /\ treshold \in RecThresholds
    /\ paddedSize = 0
    /\ APadded = EmptyMatrix
    /\ BPadded = EmptyMatrix
    /\ CPadded = EmptyMatrix
    /\ product = EmptyMatrix
    /\ mpc = "call"
    /\ IdleLU /\ IdlePad /\ IdleNP

SpecRec == InitRec /\ [][NextMul]_vars

(***************************************************************************)
(* matrixPadding followed by matrixUnpadding.                              *)
(***************************************************************************)
Pad ==
    /\ ppc = "call"
    /\ padded' = matrixPadding(src, newSize)
    /\ ppc' = "padded"
    /\ UNCHANGED <<src, newSize, unpadded>>
    /\ UNCHANGED <<luVars, mulVars, npVars>>

Unpad ==
    /\ ppc = "padded"
    /\ unpadded' = matrixUnpadding(padded, src.m_rows, src.m_cols)
    /\ ppc' = "unpadded"
    /\ UNCHANGED <<src, newSize, padded>>
    /\ UNCHANGED <<luVars, mulVars, npVars>>

InitPad ==
    /\ IsIntMatrix(src)
    /\ \E extra \in 0..MaxExtra : newSize = Max2(src.m_rows, src.m_cols) + extra
    /\ padded = EmptyMatrix
    /\ unpadded = EmptyMatrix
    /\ ppc = "call"
    /\ IdleLU /\ IdleMul /\ IdleNP

NextPad ==
    \/ Pad
    \/ Unpad

SpecPad == InitPad /\ [][NextPad]_vars

(***************************************************************************)
(* Reference notions the properties are stated with.                       *)
(***************************************************************************)
\* U and L of the packed matrix, and product / permutation by the textbook
\* definitions
UpperOf(M) == [r \in 0..(M.m_rows - 1), c \in 0..(M.m_cols - 1) |->
                  IF c >= r THEN At(M, r, c) ELSE Zero]
LowerOf(M) == [r \in 0..(M.m_rows - 1), c \in 0..(M.m_cols - 1) |->
                  IF c < r THEN At(M, r, c) ELSE IF c = r THEN ToRat(1) ELSE Zero]

RECURSIVE DotRat(_, _, _, _, _)
DotRat(F, G, r, c, len) ==
    IF len = 0 THEN Zero
    ELSE RAdd(DotRat(F, G, r, c, len - 1), RMul(F[r, len - 1], G[len - 1, c]))

LTimesU(M) == [r \in 0..(M.m_rows - 1), c \in 0..(M.m_cols - 1) |->
                  DotRat(LowerOf(M), UpperOf(M), r, c, M.m_rows)]
PTimesA(perm, M) == [r \in 0..(M.m_rows - 1), c \in 0..(M.m_cols - 1) |->
                        At(M, perm[r], c)]

\* A * v for a vector v
RECURSIVE DotVec(_, _, _, _)
DotVec(M, r, v, len) ==
    IF len = 0 THEN Zero
    ELSE RAdd(DotVec(M, r, v, len - 1), RMul(At(M, r, len - 1), v[len - 1]))
ATimes(M, v) == [r \in 0..(M.m_rows - 1) |-> DotVec(M, r, v, M.m_cols)]

\* C1: whenever decomposeLU has returned, L * U = P * A, with U the upper
\* triangle of the packed LU (diagonal included), L its strictly-lower
\* triangle with a unit diagonal, and row r of P * A the row P[r] of A
C1_LUEqualsPA ==
    pc \in {"returned", "solved"} => LTimesU(LU) = PTimesA(P, A)

\* C2: the vector solve returns has the length of b and solves the original
\* system, A * x = b
C2_SolveSolvesOriginal ==
    pc = "solved" => /\ DOMAIN x = DOMAIN b
                     /\ ATimes(A, x) = b

\* sum of term[k] over the finite set S of indices
RECURSIVE SumOver(_, _)
SumOver(S, term) ==
    IF S = {} THEN 0
    ELSE LET k == CHOOSE e \in S : TRUE
         IN  term[k] + SumOver(S \ {k}, term)

\* the product by its definition: C(r, c) = sum over k of X(r, k) * Y(k, c)
ProductByDefinition(X, Y) ==
    [m_rows |-> X.m_rows, m_cols |-> Y.m_cols,
     m_data |-> [q \in 0..(X.m_rows * Y.m_cols - 1) |->
                    SumOver(0..(X.m_cols - 1),
                            [k \in 0..(X.m_cols - 1) |->
                                At(X, q \div Y.m_cols, k) * At(Y, k, q % Y.m_cols)])]]

\* C3: operator* returns the product by its definition on the classical and
\* on the padded recursive path, and on the padded squares strassenMultiply
\* agrees cell by cell with matrixMultiply, for the threshold in force and
\* for every other value of the threshold
C3_PathsAgree ==
    /\ mpc \in {"returned_classical", "returned_padded"}
          => product = ProductByDefinition(lhs, other)
    /\ mpc = "padded"
          => \A t \in Thresholds :
                strassenMultiply(APadded, BPadded, t) = matrixMultiply(APadded, BPadded)
    /\ mpc = "multiplied" => CPadded = matrixMultiply(APadded, BPadded)

\* C3 witness: a product returned by two levels of recursion (4 -> 2 -> 1)
\* that is not the zero matrix
C3_Witness ==
    /\ mpc = "returned_padded"
    /\ treshold = 1
    /\ paddedSize = 4
    /\ \E k \in DOMAIN product.m_data : product.m_data[k] > 1

HasZeroRow(Q) ==
    \E r \in 0..(Q.m_rows - 1) : \A c \in 0..(Q.m_cols - 1) : At(Q, r, c) = Zero

\* C4: on a matrix with an all-zero row decomposeLU never returns a result:
\* it is at the call, at a block of a pivot step i < dim (which then runs),
\* or has thrown the singular-matrix error at one of the pivot indices; for
\* [[1,2],[0,0]] the error carries pivot index 1
C4_ZeroRowIsSingular ==
    /\ HasZeroRow(A) =>
          \/ pc = "call"
          \/ pc \in {"select", "swap", "check", "eliminate"} /\ i \in 0..(dim - 1)
          \/ pc = "thrown" /\ errIndex \in 0..(dim - 1) /\ errIndex = i
    /\ (A = ExampleSingular /\ pc = "thrown") => errIndex = 1

\* C4 witness: decomposeLU([[1,2],[0,0]]) has thrown at pivot index 1
C4_Witness ==
    A = ExampleSingular /\ pc = "thrown" /\ errIndex = 1

IsPermutation(perm, d) ==
    /\ DOMAIN perm = 0..(d - 1)
    /\ \A v \in 0..(d - 1) : Cardinality({k \in DOMAIN perm : perm[k] = v}) = 1

\* C5: from the end of the initialisation on (after every block of every
\* pivot step, at the throw and in the returned result) P has length dim
\* and contains each of 0 .. dim-1 exactly once
C5_PIsPermutation ==
    pc # "call" => IsPermutation(P, dim)

\* C5 witness: a returned result whose P was changed by two swaps
C5_Witness ==
    /\ pc = "returned"
    /\ swaps = 2
    /\ \E k \in DOMAIN P : P[k] # k

RECURSIVE MinusOneToThe(_)
MinusOneToThe(e) == IF e = 0 THEN 1 ELSE (-1) * MinusOneToThe(e - 1)

\* C6: in every returned result toggleSign is +1 or -1 and equals
\* (-1)^(number of times the swap branch was taken)
C6_ToggleSignIsParity ==
    pc \in {"returned", "solved"} =>
        /\ toggleSign \in {1, -1}
        /\ toggleSign = MinusOneToThe(swaps)

\* C6 witness: a returned result after two swaps, the sign back at +1
C6_Witness ==
    pc = "returned" /\ swaps = 2 /\ toggleSign = 1

\* C7: matrixPadding(M, newSize) with newSize >= max(rows, cols) gives a
\* newSize x newSize matrix that is M in its top-left rows x cols region
\* and zero elsewhere, and matrixUnpadding(rows, cols) of it is M again
C7_PadUnpadRoundTrip ==
    /\ ppc \in {"padded", "unpadded"} =>
          /\ padded.m_rows = newSize /\ padded.m_cols = newSize
          /\ DOMAIN padded.m_data = 0..(newSize * newSize - 1)
          /\ \A r \in 0..(newSize - 1) : \A c \in 0..(newSize - 1) :
                At(padded, r, c) =
                    IF r < src.m_rows /\ c < src.m_cols THEN At(src, r, c) ELSE 0
    /\ ppc = "unpadded" => unpadded = src

\* C7 witness: a non-square matrix with a non-zero last cell, padded to more
\* than its larger dimension and unpadded again
C7_Witness ==
    /\ ppc = "unpadded"
    /\ src.m_rows = 2 /\ src.m_cols = 1
    /\ newSize = 3
    /\ At(src, 1, 0) = 1

\* the smallest power of two strictly greater than v, in the integers
SmallestPowerAbove(v) ==
    LET powers == { Pow2(e) : e \in 0..(SizeBits + 1) }
    IN  CHOOSE p \in powers : p > v /\ \A q \in powers : q > v => p <= q

IsPowerOfTwoValue(v) == \E e \in 0..SizeBits : v = Pow2(e)

\* the value the claim gives for nextPowerOfTwo(v)
ClaimedPower(v) ==
    IF v = 0 THEN 1 ELSE IF IsPowerOfTwoValue(v) THEN v ELSE SmallestPowerAbove(v)

\* C8 as stated: for every n of the size type the call returns the claimed
\* value, i.e. at every point it has returned that value or can still make
\* a step that changes its state
C8_ReturnsClaimedForEveryN ==
    /\ npc = "returned" => ret = ClaimedPower(n)
    /\ npc # "returned" => ENABLED <<NextNP>>_vars

\* the largest power of two of the size type (2^63 for a 64-bit size_t)
LargestPower == Pow2(SizeBits - 1)

\* C8 amended: the same for every n up to the largest power of two of the
\* size type
C8_ReturnsClaimedUpToLargestPower ==
    n <= LargestPower =>
        /\ npc = "returned" => ret = ClaimedPower(n)
        /\ npc # "returned" => ENABLED <<NextNP>>_vars

\* C8 witness: nextPowerOfTwo(9) has returned 16
C8_Witness ==
    npc = "returned" /\ n = 9 /\ ret = 16

\* C9: operator* ends with the incompatible-dimensions error exactly when
\* A.cols # B.rows, before anything of either path was computed; otherwise
\* what it returns has A.rows rows, B.cols columns and A.rows * B.cols
\* cells, on both paths
C9_ErrorOrShape ==
    /\ mpc # "call" => (mpc = "invalid_argument" <=> lhs.m_cols # other.m_rows)
    /\ mpc = "invalid_argument" =>
          /\ paddedSize = 0
          /\ <<APadded, BPadded, CPadded, product>>
                = <<EmptyMatrix, EmptyMatrix, EmptyMatrix, EmptyMatrix>>
    /\ mpc \in {"returned_classical", "returned_padded"} =>
          /\ product.m_rows = lhs.m_rows
          /\ product.m_cols = other.m_cols
          /\ DOMAIN product.m_data = 0..(lhs.m_rows * other.m_cols - 1)

\* C9 witness: the error raised for two operands large enough for the
\* padded path
C9_Witness ==
    /\ mpc = "invalid_argument"
    /\ lhs.m_cols # other.m_rows
    /\ ~belowTreshold(lhs, other, treshold)

\* C10: the swap block of pivot step i, when maxIndex # i, exchanges rows i
\* and maxIndex in the columns i .. dim-1 only, leaves their columns
\* 0 .. i-1 and every other row as they were, exchanges P[i] and
\* P[maxIndex] and negates toggleSign; when maxIndex = i it changes none of
\* LU, P and toggleSign
C10_SwapFrame ==
    [][pc = "swap" =>
        IF maxIndex # i
        THEN /\ \A c \in 0..(dim - 1) :
                  /\ c >= i => /\ At(LU', i, c) = At(LU, maxIndex, c)
                               /\ At(LU', maxIndex, c) = At(LU, i, c)
                  /\ c < i => /\ At(LU', i, c) = At(LU, i, c)
                              /\ At(LU', maxIndex, c) = At(LU, maxIndex, c)
             /\ \A r \in 0..(dim - 1) : \A c \in 0..(dim - 1) :
                  r \notin {i, maxIndex} => At(LU', r, c) = At(LU, r, c)
             /\ P'[i] = P[maxIndex] /\ P'[maxIndex] = P[i]
             /\ \A k \in DOMAIN P : k \notin {i, maxIndex} => P'[k] = P[k]
             /\ toggleSign' = -toggleSign
        ELSE UNCHANGED <<LU, P, toggleSign>>]_vars

\* C10 witness: the state after a swap at a pivot step i >= 1 of two rows
\* whose stored multipliers in column 0 differ
C10_Witness ==
    /\ pc = "check"
    /\ i >= 1
    /\ maxIndex # i
    /\ At(LU, i, 0) # At(LU, maxIndex, 0)

\* C11: the row selected at pivot step i is a row maxIndex in i .. dim-1
\* whose entry in column i has the largest absolute value among the rows
\* i .. dim-1 of the working matrix as it is at that step, and every row
\* before it in that range has a strictly smaller one (the first maximum
\* wins, so maxIndex = i when row i attains the maximum)
C11_FirstLargestPivot ==
    pc = "swap" =>
        /\ maxIndex \in i..(dim - 1)
        /\ \A r \in i..(dim - 1) :
              ~RGreater(RAbs(At(LU, r, i)), RAbs(At(LU, maxIndex, i)))
        /\ \A r \in i..(maxIndex - 1) :
              RGreater(RAbs(At(LU, maxIndex, i)), RAbs(At(LU, r, i)))

\* C11 witness: at a pivot step i >= 1 a later row ties with row i on a
\* non-zero magnitude and row i is the one selected
C11_Witness ==
    /\ pc = "swap"
    /\ i >= 1
    /\ maxIndex = i
    /\ ~belowTolerance(At(LU, i, i))
    /\ \E r \in (i + 1)..(dim - 1) :
          RAbs(At(LU, r, i)) = RAbs(At(LU, i, i))

\* C12: for compatible operands operator* returns matrixMultiply of the
\* unpadded operands, with nothing padded, exactly when rows * cols of one
\* of them is below the threshold; otherwise both operands are padded to
\* the square size nextPowerOfTwo(max(A.rows, A.cols, B.rows, B.cols)),
\* strassenMultiply is called on the two padded squares and its result is
\* unpadded to (A.rows, B.cols)
C12_StrategySelection ==
    LET small == \/ lhs.m_rows * lhs.m_cols < treshold
                 \/ other.m_rows * other.m_cols < treshold
        largest == Max2(Max2(lhs.m_rows, lhs.m_cols), Max2(other.m_rows, other.m_cols))
    IN  /\ mpc = "returned_classical" =>
              /\ small
              /\ product = matrixMultiply(lhs, other)
              /\ paddedSize = 0
              /\ <<APadded, BPadded, CPadded>> = <<EmptyMatrix, EmptyMatrix, EmptyMatrix>>
        /\ mpc \in {"padded", "multiplied", "returned_padded"} =>
              /\ ~small
              /\ paddedSize = nextPowerOfTwo(largest)
              /\ APadded = matrixPadding(lhs, paddedSize)
              /\ BPadded = matrixPadding(other, paddedSize)
              /\ APadded.m_rows = paddedSize /\ APadded.m_cols = paddedSize
              /\ BPadded.m_rows = paddedSize /\ BPadded.m_cols = paddedSize
        /\ mpc = "multiplied" =>
              CPadded = strassenMultiply(APadded, BPadded, treshold)
        /\ mpc = "returned_padded" =>
              /\ product.m_rows = lhs.m_rows /\ product.m_cols = other.m_cols
              /\ \A r \in 0..(lhs.m_rows - 1) : \A c \in 0..(other.m_cols - 1) :
                    At(product, r, c) = At(CPadded, r, c)

\* C12 witness: operands of 3 cells each, not below the threshold 2, padded
\* from largest dimension 3 to 4 x 4, the product returned unpadded
C12_Witness ==
    /\ mpc = "returned_padded"
    /\ treshold = 2
    /\ lhs.m_rows = 1 /\ lhs.m_cols = 3 /\ other.m_cols = 1
    /\ paddedSize = 4
    /\ At(product, 0, 0) = 3

\* the calls made when operator* enters strassenMultiply (Matrix.hpp:128)
CallsFromOperator == strassenCalls(APadded, BPadded, treshold, 0, paddedSize)

\* C13 as stated: every call of the recursion entered from operator* is at a
\* depth of at most log2(paddedSize / threshold), i.e.
\* threshold * 2^depth <= paddedSize
C13_DepthWithinLog2 ==
    mpc = "multiplied" =>
        \A c \in CallsFromOperator : treshold * Pow2(c.depth) <= paddedSize

\* C13 amended: the recursion entered from operator* terminates; the entry
\* call gets two paddedSize squares; every recursive call gets two square
\* operands of the same power-of-two size, exactly half its caller's; a call
\* whose size is <= threshold makes no recursive call and any other makes
\* seven; the depth of a call is 0 or at most log2(paddedSize / threshold)
C13_HalvingRecursion ==
    mpc = "multiplied" =>
        /\ IsFiniteSet(CallsFromOperator)
        /\ \A c \in CallsFromOperator :
              /\ c.a[1] = c.a[2] /\ c.b[1] = c.b[2] /\ c.a = c.b
              /\ IsPowerOfTwoValue(c.a[1])
              /\ IF c.depth = 0 THEN c.a[1] = paddedSize
                 ELSE 2 * c.a[1] = c.caller
              /\ c.calls = (IF c.a[1] <= treshold THEN 0 ELSE 7)
              /\ c.depth = 0 \/ treshold * Pow2(c.depth) <= paddedSize

\* C13 witness: operands padded to 4 x 4 with threshold 1, the recursion
\* reaching depth 2 = log2(4 / 1) with 1 x 1 operands
C13_Witness ==
    /\ mpc = "multiplied"
    /\ paddedSize = 4 /\ treshold = 1
    /\ \E c \in CallsFromOperator : c.depth = 2 /\ c.a = <<1, 1>> /\ c.calls = 0

\* C14: every diagonal entry of a returned LUResult has magnitude at or
\* above the tolerance, so the divisors LU(k, k) of the back-substitution
\* of solve do too: the pivot LU(i, i) passes the check of step i, and no
\* step changes a row r < i, nor row i once its check has passed
C14_DiagonalAboveTolerance ==
    /\ [](pc \in {"returned", "solved"} =>
            \A k \in 0..(dim - 1) : ~belowTolerance(At(LU, k, k)))
    /\ [](pc = "eliminate" => ~belowTolerance(At(LU, i, i)))
    /\ [][pc # "call" =>
            \A r \in 0..(dim - 1) :
                (r < i \/ (r = i /\ pc = "eliminate")) =>
                    \A c \in 0..(dim - 1) : At(LU', r, c) = At(LU, r, c)]_vars

\* C14 witness: solve has run its back-substitution on a returned 3 x 3
\* decomposition that needed a row exchange and has a negative pivot
C14_Witness ==
    /\ pc = "solved"
    /\ dim = 3
    /\ swaps >= 1
    /\ \E k \in 0..(dim - 1) : RGreater(Zero, At(LU, k, k))
    /\ \A k \in 0..(dim - 1) : ~belowTolerance(At(LU, k, k))

====
